---- MODULE Spec2Model ----
(***************************************************************************)
(* Model of the OIDC authorize endpoint of authelia                        *)
(* (internal/oidc/oauth2_auth.go): authorizeHandler, its two entry points  *)
(* AuthorizeEndpointGet / AuthorizeEndpointPost, the client registry       *)
(* lookup, and the session-persisted consent workflow.                     *)
(*                                                                         *)
(* One invocation of authorizeHandler is a frame p with a program counter  *)
(* pc[p]; every call into a collaborator (protocol engine, policy engine,  *)
(* session store, forwarded-header resolution) is one step.  The persisted *)
(* UserSession is the variable session; a frame works on its own copy      *)
(* (local[p].userSession) between GetSession and SaveSession.              *)
(*                                                                         *)
(* The session store, the policy engine, the level comparison and the      *)
(* slice comparison live outside this file; they are modelled from their   *)
(* documented contracts: SaveSession either replaces the persisted session *)
(* or fails and leaves it as it was, GetRequiredLevel is a pure function   *)
(* of the target, and the subject (Username, Groups, IP) is fixed.         *)
(***************************************************************************)
EXTENDS Integers, Sequences, FiniteSets, TLC

(* ----------------------------- bounds --------------------------------- *)

\* Longest scope list a request carries.
MaxScopes == 2

(* ------------------------- value universes ---------------------------- *)

\* Handler frames; "other" serves a request that overlaps the browser's.
Procs == {"browser", "other"}

\* The browser's requests are handled one at a time by this frame.
Browser == "browser"

Scopes == {"openid", "email"}

RECURSIVE SeqsUpTo(_, _)
SeqsUpTo(S, n) ==
    IF n = 0 THEN {<<>>}
    ELSE LET shorter == SeqsUpTo(S, n - 1)
         IN  shorter \cup {Append(s, x) : s \in shorter, x \in S}

ScopeLists == SeqsUpTo(Scopes, MaxScopes)

\* The audiences a request asks for.
AudienceLists == {<<"api", "userinfo">>}

\* Clients the protocol engine can name in a parsed request; "ghost" is
\* known to the protocol engine's store but has no entry in the registry.
RequestClients == {"app-a", "app-b", "ghost"}

\* configuration.Clients, the static registry (a list of client entries).
Clients == <<[ID |-> "app-a"], [ID |-> "app-b"]>>

\* Redirect targets of a request, the resource identity given to the policy.
RedirectURIs == {"https://public.example.com", "https://one.example.com", "https://two.example.com"}

\* What GetOriginalURL can resolve from the forwarded headers.
ForwardedURIs == {"https://auth.example.com/api/oidc/authorize"}

\* What ForwardedProtoHost can resolve.
ProtoHosts == {"https://auth.example.com"}

Range(s) == {s[i] : i \in DOMAIN s}

(* ---------------------- authentication levels ------------------------- *)

NotAuthenticated == 0
OneFactor == 1
TwoFactor == 2
Bypass == 0

AuthenticationLevels == {NotAuthenticated, OneFactor, TwoFactor}

\* authorization.IsAuthLevelSufficient: bypass is always sufficient,
\* otherwise the current rank must not be lower than the required rank.
IsAuthLevelSufficient(authenticationLevel, authorizationLevel) ==
    \/ authorizationLevel = Bypass
    \/ authenticationLevel >= authorizationLevel

\* Authorizer.GetRequiredLevel: a pure function of subject and object; the
\* access-control rules of the model decide by the target's domain.
GetRequiredLevel(targetURL) ==
    CASE targetURL = "https://public.example.com" -> Bypass
      [] targetURL = "https://one.example.com"    -> OneFactor
      [] OTHER                                     -> TwoFactor

\* utils.IsStringSlicesDifferent: the two lists differ as sets.
IsStringSlicesDifferent(a, b) == Range(a) # Range(b)

(* --------------------------- optional values -------------------------- *)

\* A nil pointer is the empty sequence, a non-nil one a one-element sequence.
Nil == <<>>
Ptr(v) == <<v>>
Deref(p) == p[1]

(* ------------------------------ state --------------------------------- *)

VARIABLES
    session,   \* the persisted UserSession (session store)
    pc,        \* pc[p]: position of frame p in authorizeHandler
    post,      \* post[p]: the entry point's flag
    ar,        \* ar[p]: the parsed AuthorizeRequest (Nil before parsing / on error)
    local,     \* local[p]: the handler's local variables
    rw,        \* rw[p]: what was written to the http.ResponseWriter
    calls,     \* calls[p]: number of calls into each collaborator
    entry,     \* entry[p]: what the invocation found and whether it changed the persisted session
    consent    \* "none", then "granted" by the consent step, "consumed" by a finalize

vars == <<session, pc, post, ar, local, rw, calls, entry, consent>>

NoLocal ==
    [userSession |-> Nil, requiredAuthorizationLevel |-> Bypass,
     isAuthInsufficient |-> FALSE, isConsentMissing |-> FALSE,
     forwardedURI |-> "", failed |-> "none"]

NoResponse == [status |-> 0, location |-> "", body |-> "none"]

NoCalls ==
    [SaveSession |-> 0, GetRequiredLevel |-> 0, WriteAuthorizeError |-> 0,
     NewAuthorizeResponse |-> 0, WriteAuthorizeResponse |-> 0]

NoEntry == [changed |-> FALSE, consent |-> "none", cleared |-> TRUE]

Init ==
    /\ session = [AuthenticationLevel |-> NotAuthenticated, OIDCWorkflowSession |-> Nil]
    /\ pc = [p \in Procs |-> "idle"]
    /\ post = [p \in Procs |-> FALSE]
    /\ ar = [p \in Procs |-> Nil]
    /\ local = [p \in Procs |-> NoLocal]
    /\ rw = [p \in Procs |-> NoResponse]
    /\ calls = [p \in Procs |-> NoCalls]
    /\ entry = [p \in Procs |-> NoEntry]
    /\ consent = "none"

(* --------------------- helpers of authorizeHandler -------------------- *)

\* getOIDCClientConfig: linear scan of the registry; Nil when no ID matches.
RECURSIVE ScanClients(_, _, _)
ScanClients(clientID, clients, i) ==
    IF i > Len(clients) THEN Nil
    ELSE IF clientID = clients[i].ID THEN Ptr(clients[i])
    ELSE ScanClients(clientID, clients, i + 1)

\* Variant: an unknown ID falls back to the first entry of the registry.
getOIDCClientConfigFallback(clientID, configuration) ==
    IF ScanClients(clientID, configuration, 1) = Nil /\ Len(configuration) > 0
    THEN Ptr(configuration[1])
    ELSE ScanClients(clientID, configuration, 1)

getOIDCClientConfig(clientID, configuration) == ScanClients(clientID, configuration, 1)

\* Variant: the negation is dropped, a sufficient level counts as insufficient.
IsAuthInsufficientNegationDropped(userSession, requiredAuthorizationLevel) ==
    IsAuthLevelSufficient(userSession.AuthenticationLevel, requiredAuthorizationLevel)

\* Variant: two factors are demanded whatever level the policy requires.
IsAuthInsufficientIgnoresRequired(userSession, requiredAuthorizationLevel) ==
    ~IsAuthLevelSufficient(userSession.AuthenticationLevel, TwoFactor)

\* isAuthInsufficient of authorizeHandler.
IsAuthInsufficient(userSession, requiredAuthorizationLevel) ==
    ~IsAuthLevelSufficient(userSession.AuthenticationLevel, requiredAuthorizationLevel)

\* Variant: an absent workflow does not count as missing consent.
IsConsentMissingUnlessAbsent(req, userSession) ==
    /\ Len(req.RequestedScopes) > 0
    /\ userSession.OIDCWorkflowSession # Nil
    /\ IsStringSlicesDifferent(req.RequestedScopes,
                               Deref(userSession.OIDCWorkflowSession).GrantedScopes)

\* Variant: the comparison is inverted, equal lists count as missing consent.
IsConsentMissingInverted(req, userSession) ==
    /\ Len(req.RequestedScopes) > 0
    /\ \/ userSession.OIDCWorkflowSession = Nil
       \/ ~IsStringSlicesDifferent(req.RequestedScopes,
                                   Deref(userSession.OIDCWorkflowSession).GrantedScopes)

\* Variant: the guard on the number of requested scopes is dropped.
IsConsentMissingAnyScopes(req, userSession) ==
    \/ userSession.OIDCWorkflowSession = Nil
    \/ IsStringSlicesDifferent(req.RequestedScopes,
                               Deref(userSession.OIDCWorkflowSession).GrantedScopes)

\* Variant: the two lists are compared position by position.
IsConsentMissingOrderSensitive(req, userSession) ==
    /\ Len(req.RequestedScopes) > 0
    /\ \/ userSession.OIDCWorkflowSession = Nil
       \/ req.RequestedScopes # Deref(userSession.OIDCWorkflowSession).GrantedScopes

\* isConsentMissing of authorizeHandler.
IsConsentMissing(req, userSession) ==
    /\ Len(req.RequestedScopes) > 0
    /\ \/ userSession.OIDCWorkflowSession = Nil
       \/ IsStringSlicesDifferent(req.RequestedScopes,
                                  Deref(userSession.OIDCWorkflowSession).GrantedScopes)

\* Variant: the branch is taken only when both conditions are unmet.
TakesPendingBranchBothUnmet(isAuthInsufficient, isConsentMissing) ==
    isAuthInsufficient /\ isConsentMissing

\* The condition of the pending-workflow branch.
TakesPendingBranch(isAuthInsufficient, isConsentMissing) ==
    isAuthInsufficient \/ isConsentMissing

\* Variant: the forwarded URI and the redirect target are exchanged.
NewWorkflowSessionSwappedURIs(clientID, req, forwardedURI, requiredAuthorizationLevel) ==
    Ptr([ClientID |-> clientID,
         RequestedScopes |-> req.RequestedScopes,
         GrantedScopes |-> <<>>,
         AuthURI |-> req.RedirectURI,
         TargetURI |-> forwardedURI,
         RequiredAuthorizationLevel |-> requiredAuthorizationLevel])

\* Variant: the fresh workflow is created with the requested scopes granted.
NewWorkflowSessionKeepsGrant(clientID, req, forwardedURI, requiredAuthorizationLevel) ==
    Ptr([ClientID |-> clientID,
         RequestedScopes |-> req.RequestedScopes,
         GrantedScopes |-> req.RequestedScopes,
         AuthURI |-> forwardedURI,
         TargetURI |-> req.RedirectURI,
         RequiredAuthorizationLevel |-> requiredAuthorizationLevel])

\* new(session.OIDCWorkflowSession) and the five assignments that follow it.
NewWorkflowSession(clientID, req, forwardedURI, requiredAuthorizationLevel) ==
    Ptr([ClientID |-> clientID,
         RequestedScopes |-> req.RequestedScopes,
         GrantedScopes |-> <<>>,
         AuthURI |-> forwardedURI,
         TargetURI |-> req.RedirectURI,
         RequiredAuthorizationLevel |-> requiredAuthorizationLevel])

\* Variant: the two redirect targets are exchanged.
RedirectLocationSwapped(uri, isConsentMissing) ==
    IF isConsentMissing THEN uri \o "?workflow=openid" ELSE uri \o "/consent"

\* The Location of the pending branch's redirect.
RedirectLocation(uri, isConsentMissing) ==
    IF isConsentMissing THEN uri \o "/consent" ELSE uri \o "?workflow=openid"

\* The two grant loops: GrantScope / GrantAudience append each requested item.
RECURSIVE GrantEach(_, _)
GrantEach(granted, requested) ==
    IF requested = <<>> THEN granted
    ELSE GrantEach(Append(granted, Head(requested)), Tail(requested))

\* Variant: the scope loop stops after the first scope, audiences are skipped.
GrantRequestedFirstOnly(req) ==
    [req EXCEPT !.GrantedScope =
                    IF req.RequestedScopes = <<>> THEN req.GrantedScope
                    ELSE Append(req.GrantedScope, Head(req.RequestedScopes))]

GrantRequested(req) ==
    [req EXCEPT !.GrantedScope = GrantEach(req.GrantedScope, req.RequestedScopes),
                !.GrantedAudience = GrantEach(req.GrantedAudience, req.RequestedAudience)]

\* Variant: the workflow is left in place.
ClearWorkflowKept(userSession) == userSession

\* userSession.OIDCWorkflowSession = nil
ClearWorkflow(userSession) == [userSession EXCEPT !.OIDCWorkflowSession = Nil]

(* ----------------------------- entry points --------------------------- *)

Idle(p) == pc[p] \in {"idle", "done"}

Enter(p, isPost) ==
    /\ Idle(p)
    /\ pc' = [pc EXCEPT ![p] = "NewAuthorizeRequest"]
    /\ post' = [post EXCEPT ![p] = isPost]
    /\ ar' = [ar EXCEPT ![p] = Nil]
    /\ local' = [local EXCEPT ![p] = NoLocal]
    /\ rw' = [rw EXCEPT ![p] = NoResponse]
    /\ calls' = [calls EXCEPT ![p] = NoCalls]
    /\ entry' = [entry EXCEPT ![p] = [changed |-> FALSE, consent |-> consent,
                                      cleared |-> session.OIDCWorkflowSession = Nil]]
    /\ UNCHANGED <<session, consent>>

AuthorizeEndpointGet(p) == Enter(p, FALSE)

AuthorizeEndpointPost(p) == Enter(p, TRUE)

(* --------------------------- authorizeHandler ------------------------- *)

Finish(p, response, failure) ==
    /\ pc' = [pc EXCEPT ![p] = "done"]
    /\ rw' = [rw EXCEPT ![p] = response]
    /\ local' = [local EXCEPT ![p].failed = failure]

\* oauth2.NewAuthorizeRequest and its error branch.
NewAuthorizeRequest(p) ==
    /\ pc[p] = "NewAuthorizeRequest"
    /\ \/ /\ Finish(p, [status |-> 400, location |-> "", body |-> "authorize_error"], "NewAuthorizeRequest")
          /\ calls' = [calls EXCEPT ![p].WriteAuthorizeError = @ + 1]
          /\ UNCHANGED <<session, post, ar, entry, consent>>
       \/ \E client \in RequestClients, scopes \in ScopeLists,
             audience \in AudienceLists, redirect \in RedirectURIs :
          /\ ar' = [ar EXCEPT ![p] =
                      Ptr([ClientID |-> client, RedirectURI |-> redirect,
                           RequestedScopes |-> scopes, RequestedAudience |-> audience,
                           GrantedScope |-> <<>>, GrantedAudience |-> <<>>])]
          /\ pc' = [pc EXCEPT ![p] = "getOIDCClientConfig"]
          /\ UNCHANGED <<session, post, local, rw, calls, entry, consent>>

\* Variant: the dispatch ignores post and always evaluates the policy.
LookupClientIgnoresPost(p) ==
    /\ pc[p] = "getOIDCClientConfig"
    /\ IF getOIDCClientConfig(Deref(ar[p]).ClientID, Clients) = Nil
       THEN /\ Finish(p, [status |-> 400, location |-> "", body |-> "authorize_error"], "getOIDCClientConfig")
            /\ calls' = [calls EXCEPT ![p].WriteAuthorizeError = @ + 1]
       ELSE /\ pc' = [pc EXCEPT ![p] = "GetSession"]
            /\ UNCHANGED <<local, rw, calls>>
    /\ UNCHANGED <<session, post, ar, entry, consent>>

\* The registry lookup, its error branch and the dispatch on post.
LookupClient(p) ==
    /\ pc[p] = "getOIDCClientConfig"
    /\ IF getOIDCClientConfig(Deref(ar[p]).ClientID, Clients) = Nil
       THEN /\ Finish(p, [status |-> 400, location |-> "", body |-> "authorize_error"], "getOIDCClientConfig")
            /\ calls' = [calls EXCEPT ![p].WriteAuthorizeError = @ + 1]
       ELSE /\ pc' = [pc EXCEPT ![p] = IF post[p] THEN "Grant" ELSE "GetSession"]
            /\ UNCHANGED <<local, rw, calls>>
    /\ UNCHANGED <<session, post, ar, entry, consent>>

\* userSession := ctx.GetSession() of the interactive path.
GetSession(p) ==
    /\ pc[p] = "GetSession"
    /\ local' = [local EXCEPT ![p].userSession = Ptr(session)]
    /\ pc' = [pc EXCEPT ![p] = "Decide"]
    /\ UNCHANGED <<session, post, ar, rw, calls, entry, consent>>

\* The policy lookup, the two conditions and the branch on them.
Decide(p) ==
    /\ pc[p] = "Decide"
    /\ LET req == Deref(ar[p])
           userSession == Deref(local[p].userSession)
           required == GetRequiredLevel(req.RedirectURI)
           insufficient == IsAuthInsufficient(userSession, required)
           missing == IsConsentMissing(req, userSession)
       IN  /\ local' = [local EXCEPT ![p].requiredAuthorizationLevel = required,
                                     ![p].isAuthInsufficient = insufficient,
                                     ![p].isConsentMissing = missing]
           /\ pc' = [pc EXCEPT ![p] =
                       IF TakesPendingBranch(insufficient, missing)
                       THEN "GetOriginalURL" ELSE "Grant"]
    /\ calls' = [calls EXCEPT ![p].GetRequiredLevel = @ + 1]
    /\ UNCHANGED <<session, post, ar, rw, entry, consent>>

\* Variant: the error branch writes the 500 but does not return.
GetOriginalURLFallsThrough(p) ==
    /\ pc[p] = "GetOriginalURL"
    /\ \/ /\ rw' = [rw EXCEPT ![p] = [status |-> 500, location |-> "", body |-> "error"]]
          /\ local' = [local EXCEPT ![p].failed = "GetOriginalURL"]
          /\ pc' = [pc EXCEPT ![p] = "BeginWorkflow"]
       \/ \E forwardedURI \in ForwardedURIs :
          /\ local' = [local EXCEPT ![p].forwardedURI = forwardedURI]
          /\ pc' = [pc EXCEPT ![p] = "BeginWorkflow"]
          /\ UNCHANGED rw
    /\ UNCHANGED <<session, post, ar, calls, entry, consent>>

\* ctx.GetOriginalURL and its error branch.
GetOriginalURL(p) ==
    /\ pc[p] = "GetOriginalURL"
    /\ \/ /\ Finish(p, [status |-> 500, location |-> "", body |-> "error"], "GetOriginalURL")
       \/ \E forwardedURI \in ForwardedURIs :
          /\ local' = [local EXCEPT ![p].forwardedURI = forwardedURI]
          /\ pc' = [pc EXCEPT ![p] = "BeginWorkflow"]
          /\ UNCHANGED rw
    /\ UNCHANGED <<session, post, ar, calls, entry, consent>>

\* The fresh workflow is installed in the frame's session and saved.
BeginWorkflow(p) ==
    /\ pc[p] = "BeginWorkflow"
    /\ LET req == Deref(ar[p])
           userSession ==
               [Deref(local[p].userSession) EXCEPT !.OIDCWorkflowSession =
                   NewWorkflowSession(req.ClientID, req, local[p].forwardedURI,
                                      local[p].requiredAuthorizationLevel)]
       IN  /\ calls' = [calls EXCEPT ![p].SaveSession = @ + 1]
           /\ \/ /\ session' = userSession
                 /\ entry' = [entry EXCEPT ![p].changed = @ \/ (userSession # session)]
                 /\ local' = [local EXCEPT ![p].userSession = Ptr(userSession)]
                 /\ pc' = [pc EXCEPT ![p] = "ForwardedProtoHost"]
                 /\ consent' = IF consent = "granted" THEN "overwritten" ELSE consent
                 /\ UNCHANGED rw
              \/ /\ pc' = [pc EXCEPT ![p] = "done"]
                 /\ rw' = [rw EXCEPT ![p] = [status |-> 500, location |-> "", body |-> "error"]]
                 /\ local' = [local EXCEPT ![p].userSession = Ptr(userSession),
                                           ![p].failed = "SaveSession"]
                 /\ UNCHANGED <<session, entry, consent>>
    /\ UNCHANGED <<post, ar>>

\* ctx.ForwardedProtoHost, its error branch, and the redirect.
ForwardedProtoHost(p) ==
    /\ pc[p] = "ForwardedProtoHost"
    /\ \/ Finish(p, [status |-> 500, location |-> "", body |-> "error"], "ForwardedProtoHost")
       \/ \E uri \in ProtoHosts :
             Finish(p, [status |-> 302,
                        location |-> RedirectLocation(uri, local[p].isConsentMissing),
                        body |-> "redirect"], "none")
    /\ UNCHANGED <<session, post, ar, calls, entry, consent>>

\* The grant loops over the requested scopes and audiences.
Grant(p) ==
    /\ pc[p] = "Grant"
    /\ ar' = [ar EXCEPT ![p] = Ptr(GrantRequested(Deref(ar[p])))]
    /\ pc' = [pc EXCEPT ![p] = "GetSessionFinal"]
    /\ UNCHANGED <<session, post, local, rw, calls, entry, consent>>

\* userSession := ctx.GetSession() of the finalize path.
GetSessionFinal(p) ==
    /\ pc[p] = "GetSessionFinal"
    /\ local' = [local EXCEPT ![p].userSession = Ptr(session)]
    /\ pc' = [pc EXCEPT ![p] = "ClearWorkflow"]
    /\ UNCHANGED <<session, post, ar, rw, calls, entry, consent>>

\* Variant: the cleared session is saved a second time after the first save.
ClearAndSaveTwice(p) ==
    /\ pc[p] = "ClearWorkflow"
    /\ LET userSession == ClearWorkflow(Deref(local[p].userSession))
       IN  /\ \/ /\ session' = userSession
                 /\ calls' = [calls EXCEPT ![p].SaveSession = @ + 2]
                 /\ entry' = [entry EXCEPT ![p].changed = @ \/ (userSession # session)]
                 /\ local' = [local EXCEPT ![p].userSession = Ptr(userSession)]
                 /\ pc' = [pc EXCEPT ![p] = "NewAuthorizeResponse"]
                 /\ UNCHANGED rw
              \/ /\ pc' = [pc EXCEPT ![p] = "done"]
                 /\ calls' = [calls EXCEPT ![p].SaveSession = @ + 1]
                 /\ rw' = [rw EXCEPT ![p] = [status |-> 500, location |-> "", body |-> "error"]]
                 /\ local' = [local EXCEPT ![p].userSession = Ptr(userSession),
                                           ![p].failed = "SaveSession"]
                 /\ UNCHANGED <<session, entry>>
    /\ UNCHANGED <<post, ar, consent>>

\* Variant: a failed save is answered with the 500 but the handler goes on.
ClearAndSaveIgnoresError(p) ==
    /\ pc[p] = "ClearWorkflow"
    /\ LET userSession == ClearWorkflow(Deref(local[p].userSession))
       IN  /\ calls' = [calls EXCEPT ![p].SaveSession = @ + 1]
           /\ pc' = [pc EXCEPT ![p] = "NewAuthorizeResponse"]
           /\ \/ /\ session' = userSession
                 /\ entry' = [entry EXCEPT ![p].changed = @ \/ (userSession # session)]
                 /\ local' = [local EXCEPT ![p].userSession = Ptr(userSession)]
                 /\ UNCHANGED rw
              \/ /\ rw' = [rw EXCEPT ![p] = [status |-> 500, location |-> "", body |-> "error"]]
                 /\ local' = [local EXCEPT ![p].userSession = Ptr(userSession),
                                           ![p].failed = "SaveSession"]
                 /\ UNCHANGED <<session, entry>>
    /\ UNCHANGED <<post, ar, consent>>

\* The workflow is cleared in the frame's session and saved.
ClearAndSave(p) ==
    /\ pc[p] = "ClearWorkflow"
    /\ LET userSession == ClearWorkflow(Deref(local[p].userSession))
       IN  /\ calls' = [calls EXCEPT ![p].SaveSession = @ + 1]
           /\ \/ /\ session' = userSession
                 /\ entry' = [entry EXCEPT ![p].changed = @ \/ (userSession # session)]
                 /\ local' = [local EXCEPT ![p].userSession = Ptr(userSession)]
                 /\ pc' = [pc EXCEPT ![p] = "NewAuthorizeResponse"]
                 /\ UNCHANGED rw
              \/ /\ pc' = [pc EXCEPT ![p] = "done"]
                 /\ rw' = [rw EXCEPT ![p] = [status |-> 500, location |-> "", body |-> "error"]]
                 /\ local' = [local EXCEPT ![p].userSession = Ptr(userSession),
                                           ![p].failed = "SaveSession"]
                 /\ UNCHANGED <<session, entry>>
    /\ UNCHANGED <<post, ar, consent>>

\* newSession, oauth2.NewAuthorizeResponse, and the error or response writer.
NewAuthorizeResponse(p) ==
    /\ pc[p] = "NewAuthorizeResponse"
    /\ \/ /\ Finish(p, [status |-> 400, location |-> "", body |-> "authorize_error"], "NewAuthorizeResponse")
          /\ calls' = [calls EXCEPT ![p].NewAuthorizeResponse = @ + 1,
                                    ![p].WriteAuthorizeError = @ + 1]
       \/ /\ Finish(p, [status |-> 302, location |-> Deref(ar[p]).RedirectURI,
                        body |-> "authorize_response"], "none")
          /\ calls' = [calls EXCEPT ![p].NewAuthorizeResponse = @ + 1,
                                    ![p].WriteAuthorizeResponse = @ + 1]
    /\ consent' = IF ~post[p] /\ Deref(ar[p]).RequestedScopes # <<>> /\ consent = "consumed"
                  THEN "reused" ELSE "consumed"
    /\ UNCHANGED <<session, post, ar, entry>>

authorizeHandler(p) ==
    \/ NewAuthorizeRequest(p)
    \/ LookupClient(p)
    \/ GetSession(p)
    \/ Decide(p)
    \/ GetOriginalURL(p)
    \/ BeginWorkflow(p)
    \/ ForwardedProtoHost(p)
    \/ Grant(p)
    \/ GetSessionFinal(p)
    \/ ClearAndSave(p)
    \/ NewAuthorizeResponse(p)

(* ------------------- the browser between invocations ------------------ *)

Quiescent == \A p \in Procs : Idle(p)

\* The login portal changes the session's authentication level.
Authenticate(level) ==
    /\ session.AuthenticationLevel # level
    /\ session' = [session EXCEPT !.AuthenticationLevel = level]
    /\ UNCHANGED <<pc, post, ar, local, rw, calls, entry, consent>>

\* The consent step accepts the scopes the stored workflow asks for.
ConsentAccept ==
    /\ session.OIDCWorkflowSession # Nil
    /\ LET workflow == Deref(session.OIDCWorkflowSession)
       IN  /\ workflow.GrantedScopes # workflow.RequestedScopes
           /\ session' = [session EXCEPT !.OIDCWorkflowSession =
                            Ptr([workflow EXCEPT !.GrantedScopes = workflow.RequestedScopes])]
    /\ consent' = "granted"
    /\ UNCHANGED <<pc, post, ar, local, rw, calls, entry>>

(* ---------------------------- specification --------------------------- *)

\* Requests of one browser session arrive one after the other.
Next ==
    \/ Quiescent /\ AuthorizeEndpointGet(Browser)
    \/ Quiescent /\ AuthorizeEndpointPost(Browser)
    \/ Quiescent /\ \E level \in AuthenticationLevels : Authenticate(level)
    \/ Quiescent /\ ConsentAccept
    \/ authorizeHandler(Browser)

Spec == Init /\ [][Next]_vars

\* The request of the concurrent specification: a registered client asks
\* for one scope, for a target the policy puts behind one factor.
IsConcurrentRequest(req) ==
    /\ req.ClientID = "app-a"
    /\ req.RedirectURI = "https://one.example.com"
    /\ req.RequestedScopes = <<"openid">>

\* A step of one of two interactive invocations that run at the same time.
ConcurrentStep(p) ==
    /\ authorizeHandler(p)
    /\ ar'[p] # Nil => IsConcurrentRequest(Deref(ar'[p]))

\* Two requests of one browser session are handled at the same time: the
\* handler holds no lock between its session read and its session write, so
\* the steps of the two invocations interleave freely.
NextConcurrent ==
    \/ \E p \in Procs : AuthorizeEndpointGet(p)
    \/ \E p \in Procs : ConcurrentStep(p)
    \/ Quiescent /\ \E level \in AuthenticationLevels : Authenticate(level)
    \/ Quiescent /\ ConsentAccept

SpecConcurrent == Init /\ [][NextConcurrent]_vars

(* ------------------------ the cooperative flow ------------------------ *)

\* A handler step in which nothing fails, for a registered client; while a
\* workflow is stored the browser replays the request the workflow records.
ProgressStep(p) ==
    /\ authorizeHandler(p)
    /\ local'[p].failed = "none"
    /\ ar'[p] # Nil =>
          /\ getOIDCClientConfig(Deref(ar'[p]).ClientID, Clients) # Nil
          /\ session.OIDCWorkflowSession # Nil =>
                LET workflow == Deref(session.OIDCWorkflowSession)
                IN  /\ Deref(ar'[p]).ClientID = workflow.ClientID
                    /\ Deref(ar'[p]).RequestedScopes = workflow.RequestedScopes
                    /\ Deref(ar'[p]).RedirectURI = workflow.TargetURI

\* After the redirect to consent the user accepts the requested scopes.
CooperativeConsent(p) ==
    /\ pc[p] = "done" /\ rw[p].location \in {uri \o "/consent" : uri \in ProtoHosts}
    /\ ConsentAccept

\* After the redirect to re-authentication the user reaches the level the
\* workflow requires.
CooperativeLogin(p) ==
    /\ pc[p] = "done" /\ rw[p].location \in {uri \o "?workflow=openid" : uri \in ProtoHosts}
    /\ session.OIDCWorkflowSession # Nil
    /\ LET required == Deref(session.OIDCWorkflowSession).RequiredAuthorizationLevel
       IN  /\ ~IsAuthLevelSufficient(session.AuthenticationLevel, required)
           /\ Authenticate(required)

\* The user has done what the last redirect asked for.
Responded(p) ==
    /\ pc[p] = "done" /\ rw[p].body = "redirect"
    /\ session.OIDCWorkflowSession # Nil
    /\ LET workflow == Deref(session.OIDCWorkflowSession)
       IN  IF rw[p].location \in {uri \o "/consent" : uri \in ProtoHosts}
           THEN workflow.GrantedScopes = workflow.RequestedScopes
           ELSE IsAuthLevelSufficient(session.AuthenticationLevel,
                                      workflow.RequiredAuthorizationLevel)

\* The browser comes back to the authorization endpoint after the user's step.
Resume(p) == Responded(p) /\ AuthorizeEndpointGet(p)

\* A new authorization request, once the previous one is answered.
Start(p) ==
    /\ pc[p] = "idle" \/ (pc[p] = "done" /\ rw[p].body # "redirect")
    /\ AuthorizeEndpointGet(p)

NextProgress ==
    \/ Start(Browser)
    \/ ProgressStep(Browser)
    \/ CooperativeConsent(Browser)
    \/ CooperativeLogin(Browser)
    \/ Resume(Browser)

\* The handler runs to its end once entered, the user answers every
\* redirect, and the browser follows the way back.
SpecProgress ==
    /\ Init /\ [][NextProgress]_vars
    /\ WF_vars(ProgressStep(Browser))
    /\ WF_vars(CooperativeConsent(Browser) \/ CooperativeLogin(Browser))
    /\ WF_vars(Resume(Browser))

(* ------------------------------ properties ---------------------------- *)

Req(p) == Deref(ar[p])

Parsed(p) == ar[p] # Nil

RegisteredIDs == {Clients[i].ID : i \in DOMAIN Clients}

PendingPcs == {"GetOriginalURL", "BeginWorkflow", "ForwardedProtoHost"}

FinalizePcs == {"Grant", "GetSessionFinal", "ClearWorkflow", "NewAuthorizeResponse"}

NothingGranted(p) ==
    Parsed(p) => Req(p).GrantedScope = <<>> /\ Req(p).GrantedAudience = <<>>

\* The session the frame read is at the policy-required level for the target.
AuthSatisfied(p) ==
    LET required == GetRequiredLevel(Req(p).RedirectURI)
    IN  required = Bypass \/ Deref(local[p].userSession).AuthenticationLevel >= required

\* No scopes are asked for, or the workflow the frame read grants exactly them.
ConsentSatisfied(p) ==
    LET workflow == Deref(local[p].userSession).OIDCWorkflowSession
    IN  \/ Req(p).RequestedScopes = <<>>
        \/ /\ workflow # Nil
           /\ Range(Deref(workflow).GrantedScopes) = Range(Req(p).RequestedScopes)

\* C1: on the interactive path (post = FALSE) the handler grants and calls
\* NewAuthorizeResponse only if, in that invocation, the authentication
\* level is sufficient and consent is not missing; if either is unmet the
\* invocation is on the pending branch and has granted nothing.
C1_GrantOnlyWhenBothSatisfied ==
    \A p \in Procs : ~post[p] =>
        /\ pc[p] = "Grant" => AuthSatisfied(p) /\ ConsentSatisfied(p)
        /\ pc[p] = "GetOriginalURL" => ~(AuthSatisfied(p) /\ ConsentSatisfied(p))
        /\ pc[p] \in {"Grant", "GetOriginalURL"} =>
              /\ local[p].isAuthInsufficient = ~AuthSatisfied(p)
              /\ local[p].isConsentMissing = ~ConsentSatisfied(p)
        /\ (pc[p] \in FinalizePcs \/ ~NothingGranted(p) \/ calls[p].NewAuthorizeResponse > 0) =>
              ~local[p].isAuthInsufficient /\ ~local[p].isConsentMissing
        /\ (local[p].isAuthInsufficient \/ local[p].isConsentMissing) =>
              /\ pc[p] \in PendingPcs \cup {"done"}
              /\ NothingGranted(p)
              /\ calls[p].NewAuthorizeResponse = 0

C1_Witness ==
    /\ pc[Browser] = "done" /\ ~post[Browser]
    /\ calls[Browser].NewAuthorizeResponse = 1
    /\ Req(Browser).RequestedScopes # <<>>
    /\ GetRequiredLevel(Req(Browser).RedirectURI) = TwoFactor

\* C2: on the interactive path a request with non-empty scopes reaches the
\* grant step only on the strength of a workflow recorded for its own client.
C2_ForeignWorkflowTreatedAsAbsent ==
    \A p \in Procs :
        (~post[p] /\ pc[p] = "Grant" /\ Req(p).RequestedScopes # <<>>) =>
            /\ Deref(local[p].userSession).OIDCWorkflowSession # Nil
            /\ Deref(Deref(local[p].userSession).OIDCWorkflowSession).ClientID = Req(p).ClientID

\* C3: when NewAuthorizeResponse is called the granted scopes are all the
\* requested scopes and the granted audiences all the requested audiences;
\* a request is granted entirely or not at all, and an invocation that
\* ends in a redirect, an early protocol error or a 500 built no response.
C3_GrantIsAllOrNothing ==
    \A p \in Procs :
        /\ (pc[p] = "NewAuthorizeResponse" \/ calls[p].NewAuthorizeResponse > 0) =>
              /\ Range(Req(p).GrantedScope) = Range(Req(p).RequestedScopes)
              /\ Range(Req(p).GrantedAudience) = Range(Req(p).RequestedAudience)
              /\ Len(Req(p).GrantedScope) = Len(Req(p).RequestedScopes)
              /\ Len(Req(p).GrantedAudience) = Len(Req(p).RequestedAudience)
        /\ Parsed(p) =>
              \/ NothingGranted(p)
              \/ /\ Req(p).GrantedScope = Req(p).RequestedScopes
                 /\ Req(p).GrantedAudience = Req(p).RequestedAudience
        /\ (pc[p] = "done" /\ (rw[p].body \in {"redirect", "error"}
                                \/ local[p].failed \in {"NewAuthorizeRequest", "getOIDCClientConfig"})) =>
              /\ calls[p].NewAuthorizeResponse = 0
              /\ calls[p].WriteAuthorizeResponse = 0
        /\ (pc[p] = "done" /\ rw[p].body = "redirect") => NothingGranted(p)

C3_Witness ==
    /\ pc[Browser] = "done"
    /\ rw[Browser].body = "authorize_response"
    /\ Len(Req(Browser).GrantedScope) = 2
    /\ Req(Browser).GrantedScope[1] # Req(Browser).GrantedScope[2]
    /\ Req(Browser).GrantedAudience # <<>>

\* C4: when NewAuthorizeResponse is about to be called, the invocation has
\* saved its session with the workflow cleared, and the persisted session
\* holds no workflow.
C4_ClearedBeforeResponse ==
    \A p \in Procs :
        pc[p] = "NewAuthorizeResponse" =>
            /\ calls[p].SaveSession = 1
            /\ Deref(local[p].userSession).OIDCWorkflowSession = Nil
            /\ session.OIDCWorkflowSession = Nil
            /\ session = Deref(local[p].userSession)

C4_Witness ==
    /\ pc[Browser] = "NewAuthorizeResponse"
    /\ entry[Browser].changed
    /\ session.OIDCWorkflowSession = Nil

Registered(p) == Parsed(p) /\ Req(p).ClientID \in RegisteredIDs

ConsentLocations == {host \o "/consent" : host \in ProtoHosts}

ReauthLocations == {host \o "?workflow=openid" : host \in ProtoHosts}

InfrastructureFailures == {"GetOriginalURL", "SaveSession", "ForwardedProtoHost"}

\* An interactive invocation with scopes that started after a finalize and
\* before any new consent step.
AfterConsumedGrant(p) ==
    /\ ~post[p] /\ Registered(p)
    /\ Req(p).RequestedScopes # <<>>
    /\ entry[p].consent = "consumed"

\* C5 as stated: after a finalize, the next interactive invocation with
\* non-empty scopes and no consent step in between ends in the redirect to
\* the consent endpoint.
C5_ConsumedGrantRedirectsToConsent ==
    \A p \in Procs :
        (AfterConsumedGrant(p) /\ pc[p] = "done") =>
            /\ calls[p].NewAuthorizeResponse = 0
            /\ rw[p].status = 302
            /\ rw[p].location \in ConsentLocations

\* C5 (amended): after a finalize, the next interactive invocation with
\* non-empty scopes and no consent step in between finds consent missing,
\* takes the pending branch, grants nothing and never finalizes; it ends in
\* the redirect to the consent endpoint unless GetOriginalURL, SaveSession
\* or ForwardedProtoHost fails, in which case it ends in a 500.
C5_ConsumedGrantNeverFinalizes ==
    \A p \in Procs :
        (AfterConsumedGrant(p) /\ pc[p] \notin {"getOIDCClientConfig", "GetSession", "Decide"}) =>
            /\ pc[p] \in PendingPcs \cup {"done"}
            /\ local[p].isConsentMissing
            /\ NothingGranted(p)
            /\ calls[p].NewAuthorizeResponse = 0
            /\ pc[p] = "done" =>
                  \/ rw[p].status = 302 /\ rw[p].location \in ConsentLocations
                  \/ rw[p].status = 500 /\ local[p].failed \in InfrastructureFailures

C5_Witness ==
    /\ AfterConsumedGrant(Browser)
    /\ pc[Browser] = "done"
    /\ rw[Browser].location \in ConsentLocations
    /\ session.AuthenticationLevel = TwoFactor

\* C6: an invocation that answers 500 has not changed the persisted session.
C6_NoSessionChangeOnInfrastructureError ==
    \A p \in Procs :
        (pc[p] = "done" /\ rw[p].status = 500) => ~entry[p].changed

\* C7: when GetOriginalURL fails on the pending branch the invocation ends
\* with a 500, and has made no SaveSession call, issued no redirect and
\* asked the protocol engine for neither a response nor an error page.
C7_OriginalURLFailureStopsEarly ==
    \A p \in Procs :
        local[p].failed = "GetOriginalURL" =>
            /\ pc[p] = "done"
            /\ rw[p].status = 500
            /\ rw[p].location = ""
            /\ calls[p].SaveSession = 0
            /\ ~entry[p].changed
            /\ calls[p].NewAuthorizeResponse = 0
            /\ calls[p].WriteAuthorizeResponse = 0
            /\ calls[p].WriteAuthorizeError = 0

C7_Witness ==
    /\ local[Browser].failed = "GetOriginalURL"
    /\ local[Browser].isAuthInsufficient
    /\ session.OIDCWorkflowSession # Nil

\* C8: on either entry point, an invocation whose request does not parse or
\* whose client has no registry entry ends with exactly one
\* WriteAuthorizeError call and without a session write, a grant, a
\* redirect or a NewAuthorizeResponse call.
C8_EarlyFailureWritesOneError ==
    \A p \in Procs :
        /\ (Parsed(p) /\ ~Registered(p) /\ pc[p] # "getOIDCClientConfig") =>
              local[p].failed = "getOIDCClientConfig"
        /\ (pc[p] = "done" /\ ~Parsed(p)) => local[p].failed = "NewAuthorizeRequest"
        /\ local[p].failed \in {"NewAuthorizeRequest", "getOIDCClientConfig"} =>
              /\ pc[p] = "done"
              /\ calls[p].WriteAuthorizeError = 1
              /\ calls[p].SaveSession = 0
              /\ ~entry[p].changed
              /\ NothingGranted(p)
              /\ rw[p].body = "authorize_error"
              /\ rw[p].location = ""
              /\ calls[p].NewAuthorizeResponse = 0
              /\ calls[p].WriteAuthorizeResponse = 0
              /\ calls[p].GetRequiredLevel = 0

C8_Witness ==
    /\ post[Browser]
    /\ local[Browser].failed = "getOIDCClientConfig"
    /\ session.OIDCWorkflowSession # Nil

\* C9 as stated: on the trusted-continuation path every invocation whose
\* request parses and whose client is found calls NewAuthorizeResponse.
C9_PostAlwaysBuildsResponse ==
    \A p \in Procs :
        (post[p] /\ Registered(p) /\ pc[p] = "done") =>
            calls[p].NewAuthorizeResponse = 1

\* C9 (amended): on the trusted-continuation path, once the request parses
\* and the client is found, the invocation never consults the policy engine
\* or the consent state and never takes the pending branch; whatever the
\* session holds it grants all requested scopes and audiences, clears the
\* workflow and, unless saving the cleared session fails (which ends it in
\* a 500), calls NewAuthorizeResponse.
C9_PostSkipsPolicyAndConsent ==
    \A p \in Procs :
        (post[p] /\ Registered(p) /\ pc[p] # "getOIDCClientConfig") =>
            /\ pc[p] \in FinalizePcs \cup {"done"}
            /\ calls[p].GetRequiredLevel = 0
            /\ pc[p] = "Grant" => local[p].userSession = Nil
            /\ rw[p].body # "redirect"
            /\ pc[p] # "Grant" =>
                  /\ Req(p).GrantedScope = Req(p).RequestedScopes
                  /\ Req(p).GrantedAudience = Req(p).RequestedAudience
            /\ pc[p] \in {"NewAuthorizeResponse", "done"} =>
                  Deref(local[p].userSession).OIDCWorkflowSession = Nil
            /\ pc[p] = "done" =>
                  \/ /\ calls[p].NewAuthorizeResponse = 1
                     /\ session.OIDCWorkflowSession = Nil
                  \/ /\ calls[p].NewAuthorizeResponse = 0
                     /\ local[p].failed = "SaveSession"
                     /\ rw[p].status = 500

C9_Witness ==
    /\ post[Browser] /\ pc[Browser] = "done"
    /\ calls[Browser].NewAuthorizeResponse = 1
    /\ Req(Browser).RequestedScopes # <<>>
    /\ GetRequiredLevel(Req(Browser).RedirectURI) = TwoFactor
    /\ session.AuthenticationLevel = NotAuthenticated

\* C10: a pending branch that meets no infrastructure failure answers 302:
\* to the consent endpoint whenever consent is missing (also when the
\* authentication level is insufficient too), and to the re-authentication
\* entry point with the workflow marker only when the level is insufficient
\* and consent is not missing.
C10_RedirectPrecedence ==
    \A p \in Procs :
        /\ (pc[p] = "done" /\ local[p].failed = "none"
              /\ (local[p].isAuthInsufficient \/ local[p].isConsentMissing)) =>
              /\ rw[p].status = 302
              /\ rw[p].body = "redirect"
              /\ local[p].isConsentMissing => rw[p].location \in ConsentLocations
              /\ ~local[p].isConsentMissing => rw[p].location \in ReauthLocations
        /\ rw[p].location \in ReauthLocations =>
              local[p].isAuthInsufficient /\ ~local[p].isConsentMissing
        /\ rw[p].location \in ConsentLocations => local[p].isConsentMissing

C10_Witness ==
    /\ pc[Browser] = "done"
    /\ local[Browser].isAuthInsufficient /\ local[Browser].isConsentMissing
    /\ rw[Browser].status = 302
    /\ rw[Browser].location \in ConsentLocations

\* The workflow the current attempt of frame p has to record.
AttemptWorkflow(p) ==
    [ClientID |-> Req(p).ClientID,
     RequestedScopes |-> Req(p).RequestedScopes,
     GrantedScopes |-> <<>>,
     AuthURI |-> local[p].forwardedURI,
     TargetURI |-> Req(p).RedirectURI,
     RequiredAuthorizationLevel |-> GetRequiredLevel(Req(p).RedirectURI)]

\* C11: when the pending branch ends in its redirect, the session the
\* invocation saved holds a fresh workflow (nothing granted) that records
\* exactly the current attempt; the persisted workflow is that one, changed
\* at most by a later consent step that fills in its GrantedScopes.
C11_RedirectPersistsFreshWorkflow ==
    \A p \in Procs :
        (pc[p] = "done" /\ rw[p].body = "redirect") =>
            /\ local[p].forwardedURI \in ForwardedURIs
            /\ local[p].requiredAuthorizationLevel = GetRequiredLevel(Req(p).RedirectURI)
            /\ Deref(local[p].userSession).OIDCWorkflowSession = Ptr(AttemptWorkflow(p))
            /\ session.OIDCWorkflowSession \in
                  {Ptr(AttemptWorkflow(p)),
                   Ptr([AttemptWorkflow(p) EXCEPT !.GrantedScopes = Req(p).RequestedScopes])}

C11_Witness ==
    /\ pc[Browser] = "done" /\ rw[Browser].body = "redirect"
    /\ entry[Browser].consent = "granted"
    /\ entry[Browser].changed
    /\ Req(Browser).ClientID = "app-b"
    /\ Len(Req(Browser).RequestedScopes) = 2
    /\ session.OIDCWorkflowSession = Ptr(AttemptWorkflow(Browser))

\* C12: an invocation calls SaveSession at most once; none before the
\* session is decided on, exactly one before the redirect is issued or the
\* response is built, and exactly one in an invocation that finalizes.
C12_OneSessionWrite ==
    \A p \in Procs :
        /\ calls[p].SaveSession <= 1
        /\ pc[p] \in {"NewAuthorizeRequest", "getOIDCClientConfig", "GetSession", "Decide",
                      "GetOriginalURL", "BeginWorkflow", "Grant", "GetSessionFinal",
                      "ClearWorkflow"} => calls[p].SaveSession = 0
        /\ pc[p] \in {"ForwardedProtoHost", "NewAuthorizeResponse"} => calls[p].SaveSession = 1
        /\ (rw[p].body \in {"redirect", "authorize_response"} \/ calls[p].NewAuthorizeResponse > 0) =>
              calls[p].SaveSession = 1

C12_Witness ==
    /\ pc[Browser] = "done" /\ ~post[Browser]
    /\ rw[Browser].body = "authorize_response"
    /\ Req(Browser).GrantedScope = <<"openid", "email">>
    /\ Req(Browser).GrantedAudience = Req(Browser).RequestedAudience
    /\ entry[Browser].changed
    /\ session.OIDCWorkflowSession = Nil
    /\ calls[Browser].SaveSession = 1

\* C13: when saving the cleared session fails on the finalize path the
\* invocation ends with a 500 and the protocol engine is asked neither to
\* build nor to write a response; a response is built only with no workflow
\* left in the persisted session.
C13_FailedClearStopsBeforeResponse ==
    \A p \in Procs :
        /\ (local[p].failed = "SaveSession" /\ ~NothingGranted(p)) =>
              /\ pc[p] = "done"
              /\ rw[p].status = 500
              /\ calls[p].NewAuthorizeResponse = 0
              /\ calls[p].WriteAuthorizeResponse = 0
              /\ calls[p].WriteAuthorizeError = 0
        /\ rw[p].body = "authorize_response" =>
              /\ local[p].failed = "none"
              /\ session.OIDCWorkflowSession = Nil

C13_Witness ==
    /\ local[Browser].failed = "SaveSession"
    /\ ~NothingGranted(Browser)
    /\ session.OIDCWorkflowSession # Nil
    /\ Deref(session.OIDCWorkflowSession).GrantedScopes # <<>>

\* The session frame p read holds a workflow begun for the scopes of p's
\* request and accepted in full by the consent step.
ReadsAcceptedWorkflow(p) ==
    /\ ~post[p] /\ Registered(p)
    /\ local[p].userSession # Nil
    /\ Deref(local[p].userSession).OIDCWorkflowSession # Nil
    /\ LET workflow == Deref(Deref(local[p].userSession).OIDCWorkflowSession)
       IN  /\ workflow.RequestedScopes = Req(p).RequestedScopes
           /\ workflow.GrantedScopes = workflow.RequestedScopes

\* C14 as stated: from any session, the invocation that follows a begun
\* workflow and its consent step, with the same scopes, reaches the
\* Satisfied state.
C14_RoundTripAlwaysSatisfied ==
    \A p \in Procs :
        (/\ ReadsAcceptedWorkflow(p)
         /\ Req(p).RequestedScopes # <<>>
         /\ entry[p].consent = "granted"
         /\ pc[p] \in {"Grant", "GetOriginalURL"}) => pc[p] = "Grant"

\* C14 (amended): the invocation that follows a begun workflow and its
\* consent step, with the same scopes, finds consent not missing; it
\* reaches the Satisfied state exactly when the authentication level is
\* sufficient for its target, and otherwise takes the pending branch.  An
\* interactive invocation that finalizes leaves the persisted workflow
\* cleared unless SaveSession fails.
C14_RoundTripSatisfiedWhenAuthSufficient ==
    \A p \in Procs :
        /\ (ReadsAcceptedWorkflow(p) /\ pc[p] \in {"Grant", "GetOriginalURL"}) =>
              /\ ~local[p].isConsentMissing
              /\ pc[p] = "Grant" <=> AuthSatisfied(p)
        /\ (~post[p] /\ pc[p] = "done" /\ ~NothingGranted(p)) =>
              \/ /\ local[p].failed = "SaveSession"
                 /\ ~entry[p].changed
              \/ /\ calls[p].NewAuthorizeResponse = 1
                 /\ session.OIDCWorkflowSession = Nil

C14_Witness ==
    /\ pc[Browser] = "done" /\ ~post[Browser]
    /\ entry[Browser].consent = "granted"
    /\ calls[Browser].NewAuthorizeResponse = 1
    /\ Req(Browser).RequestedScopes # <<>>
    /\ entry[Browser].changed
    /\ session.OIDCWorkflowSession = Nil

\* Frame p is an interactive invocation that has read the session and taken
\* its decision.
Decided(p) ==
    /\ ~post[p] /\ Registered(p)
    /\ local[p].userSession # Nil
    /\ pc[p] \in PendingPcs \cup FinalizePcs \cup {"done"}

\* C15: an interactive invocation that starts on a session whose workflow
\* is already cleared, with authentication and consent already satisfied,
\* takes the finalize path, never creates a workflow, and leaves the
\* persisted workflow absent, so the invocation after it starts from the
\* same state; it builds the response unless the session write fails.
C15_SatisfiedIsIdempotent ==
    \A p \in Procs :
        (/\ Decided(p) /\ entry[p].cleared
         /\ AuthSatisfied(p) /\ ConsentSatisfied(p)) =>
            /\ pc[p] \in FinalizePcs \cup {"done"}
            /\ ~local[p].isAuthInsufficient /\ ~local[p].isConsentMissing
            /\ Deref(local[p].userSession).OIDCWorkflowSession = Nil
            /\ session.OIDCWorkflowSession = Nil
            /\ ~entry[p].changed
            /\ pc[p] = "done" =>
                  \/ calls[p].NewAuthorizeResponse = 1
                  \/ local[p].failed = "SaveSession"

\* A second finalize in a row: the grant was consumed by an earlier
\* finalize, the workflow was cleared when this invocation started, and it
\* has built its response too.
C15_Witness ==
    /\ Decided(Browser) /\ pc[Browser] = "done"
    /\ entry[Browser].consent = "consumed"
    /\ entry[Browser].cleared
    /\ rw[Browser].body = "authorize_response"
    /\ GetRequiredLevel(Req(Browser).RedirectURI) = TwoFactor
    /\ session.OIDCWorkflowSession = Nil

\* C16: an interactive invocation with no requested scopes and a sufficient
\* authentication level finds consent not missing whatever workflow it
\* read, takes the finalize path and never answers with the pending
\* branch's redirect.
C16_EmptyScopesNeedNoConsent ==
    \A p \in Procs :
        (/\ Decided(p)
         /\ Req(p).RequestedScopes = <<>>
         /\ AuthSatisfied(p)) =>
            /\ ~local[p].isConsentMissing
            /\ pc[p] \in FinalizePcs \cup {"done"}
            /\ rw[p].body # "redirect"
            /\ rw[p].location \notin ConsentLocations \cup ReauthLocations
            /\ Req(p).GrantedScope = <<>>

\* The finalize path is entered with empty scopes although the session
\* holds another client's workflow with scopes granted.
C16_Witness ==
    /\ Decided(Browser) /\ pc[Browser] = "Grant"
    /\ Req(Browser).RequestedScopes = <<>>
    /\ GetRequiredLevel(Req(Browser).RedirectURI) = OneFactor
    /\ session.OIDCWorkflowSession # Nil
    /\ Deref(session.OIDCWorkflowSession).ClientID # Req(Browser).ClientID
    /\ Deref(session.OIDCWorkflowSession).GrantedScopes # <<>>

\* Scope s occurs somewhere in list l.
Occurs(s, l) == \E i \in 1..Len(l) : l[i] = s

RedirectedToReauth(p) ==
    /\ Decided(p) /\ pc[p] = "done"
    /\ rw[p].body = "redirect"
    /\ rw[p].location \in ReauthLocations
    /\ Req(p).RequestedScopes # <<>>

\* C19 as stated: the workflow persisted before the redirect to
\* re-authentication still carries the GrantedScopes that matched the
\* requested scopes.
C19_GrantSurvivesReauth ==
    \A p \in Procs :
        RedirectedToReauth(p) =>
            ~IsStringSlicesDifferent(
                Req(p).RequestedScopes,
                Deref(Deref(local[p].userSession).OIDCWorkflowSession).GrantedScopes)

\* C19 (amended): the workflow persisted before the redirect to
\* re-authentication is a fresh one with no GrantedScopes, so the grant
\* that satisfied consent is dropped; and an interactive invocation with
\* scopes that arrives after a grant was overwritten, with no consent step
\* in between, finds consent missing and never finalizes: it ends in the
\* redirect to consent or in a 500.
C19_GrantDroppedByReauth ==
    \A p \in Procs :
        /\ RedirectedToReauth(p) =>
              /\ ~local[p].isConsentMissing /\ local[p].isAuthInsufficient
              /\ Deref(Deref(local[p].userSession).OIDCWorkflowSession).GrantedScopes = <<>>
              /\ IsConsentMissing(Req(p), Deref(local[p].userSession))
        /\ (Decided(p) /\ entry[p].consent = "overwritten"
                /\ Req(p).RequestedScopes # <<>>) =>
              /\ local[p].isConsentMissing
              /\ pc[p] \in PendingPcs \cup {"done"}
              /\ NothingGranted(p)
              /\ calls[p].NewAuthorizeResponse = 0
              /\ pc[p] = "done" =>
                    \/ rw[p].location \in ConsentLocations
                    \/ rw[p].status = 500

\* A grant that matched the request was found, and the redirect to
\* re-authentication has replaced it.
C19_Witness ==
    /\ RedirectedToReauth(Browser)
    /\ entry[Browser].consent = "granted"
    /\ consent = "overwritten"
    /\ session.OIDCWorkflowSession = Ptr(AttemptWorkflow(Browser))

\* C18: under any interleaving of two interactive invocations on one
\* session, one consent grant authorizes at most one finalized request with
\* scopes: no interactive invocation with scopes builds its response from a
\* grant that another invocation has already finalized with.
C18_OneGrantOneFinalizedRequest ==
    \A p \in Procs :
        (/\ ~post[p] /\ pc[p] = "done"
         /\ calls[p].NewAuthorizeResponse = 1
         /\ Req(p).RequestedScopes # <<>>) => consent # "reused"

\* C20: with no failure, the request replayed unchanged, and a user who
\* answers every consent redirect by granting the requested scopes and every
\* re-authentication redirect by reaching the required level, every
\* authorization request that enters the handler leads to a call of
\* NewAuthorizeResponse: the flow does not alternate forever between the
\* consent and the re-authentication redirect.
C20_FlowReachesFinalize ==
    (pc[Browser] = "NewAuthorizeRequest") ~> (calls[Browser].NewAuthorizeResponse = 1)

\* A request with scopes for a two-factor target is finalized on a session
\* that started unauthenticated, after consent and login.
C20_Witness ==
    /\ pc[Browser] = "done" /\ rw[Browser].body = "authorize_response"
    /\ calls[Browser].NewAuthorizeResponse = 1
    /\ Req(Browser).RequestedScopes = <<"openid", "email">>
    /\ GetRequiredLevel(Req(Browser).RedirectURI) = TwoFactor
    /\ entry[Browser].consent = "granted"
    /\ session = [AuthenticationLevel |-> TwoFactor, OIDCWorkflowSession |-> Nil]

====
